---- MODULE Spec2Model ----
(***************************************************************************)
(* Upload -> analyze -> display state machine of the basketball pose       *)
(* analyser frontend: the top-level App, the FileUpload widget, the        *)
(* PoseAnalysis and VideoAnalysis views, and the HTTP requests they have   *)
(* outstanding.  Every action is one run-to-completion JavaScript task     *)
(* (an event handler, or the continuation of an awaited request).          *)
(***************************************************************************)
EXTENDS Integers, Sequences, FiniteSets, TLC

VARIABLES
    activeTab,      \* App.activeTab: 0 upload, 1 pose, 2 video, 3 progress
    uploadedFile,   \* App.uploadedFile: a filename or Null
    analysisResult, \* App.analysisResult: <<>> (null) or <<payload>>
    fileUpload,     \* state of the mounted FileUpload instance
    poseAnalysis,   \* state of the mounted PoseAnalysis instance
    videoAnalysis,  \* state of the mounted VideoAnalysis instance
    pending,        \* HTTP requests sent and not yet answered
    authToken,      \* localStorage item 'auth_token': a string or Null
    screen,         \* what the last render of the active tab's view displayed
    ev              \* what the last task did (its calls to the outside)

vars == <<activeTab, uploadedFile, analysisResult, fileUpload, poseAnalysis,
          videoAnalysis, pending, authToken, screen, ev>>

----------------------------------------------------------------------------
(* Bounds of the model *)

\* requests outstanding at one time
MaxPending == 2
\* byte count of a transfer whose length is computable
MaxTotal == 2

----------------------------------------------------------------------------
(* Values *)

Null == "null"
None == <<>>
Some(x) == <<x>>

\* useDropzone maxSize: 50 * 1024 * 1024 bytes
MaxSize == 52428800

ImageExts == {".png", ".jpg", ".jpeg", ".bmp"}
VideoExts == {".mp4", ".avi", ".mov", ".mkv"}

\* A dropped File: MIME type split at the slash, extension of its name, size.
File(type, ext, size) == [type |-> type, ext |-> ext, size |-> size]

Files ==
    {File("image", ".png", MaxSize), File("video", ".mp4", MaxSize),
     File("text", ".mp4", MaxSize), File("image", ".gif", MaxSize + 1),
     File("text", ".txt", MaxSize), File("video", ".mp4", MaxSize + 1)}

NoFile == [type |-> "", ext |-> "", size |-> 0]

\* Filenames the service assigns: it stores images and videos under distinct
\* names, so a name tells which endpoint the file came in through.
ImageNames == {"i1.png"}
VideoNames == {"v1.mp4"}
Names == ImageNames \cup VideoNames

ServerNames(endpoint) ==
    IF endpoint = "/upload-video" THEN VideoNames ELSE ImageNames

UploadedAs(filename) ==
    IF filename \in VideoNames THEN "video" ELSE "image"

\* Body of a successful upload response ({filename, file_size, upload_time}).
UploadResponse(filename) == [filename |-> filename]

\* Body of a successful analyze response ({success, filename, analysis}).
Analyses == {"a1", "a2"}
AnalysisResponse(filename, analysis) ==
    [success |-> TRUE, filename |-> filename, analysis |-> analysis]

\* A rejected request: err.response is absent (transport error) or carries a
\* body whose detail is a string, an empty string or absent (Null).
Details == {"file not found", "", Null}
TransportError == [response |-> FALSE, detail |-> Null]
Errors ==
    {TransportError} \cup {[response |-> TRUE, detail |-> d] : d \in Details}

\* Variant of ErrorDetail that drops the remote detail
ErrorDetailGeneric(err, fallback) == fallback

\* err.response?.data?.detail || fallback
ErrorDetail(err, fallback) ==
    IF err.response /\ err.detail # Null /\ err.detail # ""
    THEN err.detail
    ELSE fallback

\* What localStorage.getItem('auth_token') can return: null, or the string
\* stored under the key (possibly empty).
Tokens == {Null, "", "t1"}

----------------------------------------------------------------------------
(* Pure functions *)

\* apiClient request interceptor: if (token) Authorization = `Bearer ${token}`;
\* Null is "no Authorization header".
Interceptor(token) ==
    IF token # Null /\ token # "" THEN "Bearer " \o token ELSE Null

\* The Authorization header of a request by its sender: the components call
\* the global axios with an absolute URL and no auth header, and the request
\* interceptor is installed on the apiClient instance only.
Authorization(via, token) ==
    IF via = "api" THEN Interceptor(token) ELSE Null

\* Math.round(x / y) for x >= 0, y > 0: floor(x / y + 1/2)
Round(x, y) == (2 * x + y) \div (2 * y)

\* Variant of UploadPercent that reports the share still to be sent
UploadPercentRemaining(loaded, total) ==
    IF total # 0 THEN Round((total - loaded) * 100, total) ELSE 0

\* FileUpload onUploadProgress: total ? round(loaded * 100 / total) : 0
UploadPercent(loaded, total) ==
    IF total # 0 THEN Round(loaded * 100, total) ELSE 0

\* file.type.startsWith('video/')
IsVideo(file) == file.type = "video"

\* isVideo ? '/upload-video' : '/upload-image'
Endpoint(file) == IF IsVideo(file) THEN "/upload-video" ELSE "/upload-image"

\* Variant of Kind that classifies by the extension of the file name
KindByExt(file) == IF file.ext \in VideoExts THEN "video" ELSE "image"

\* isVideo ? 'video' : 'image'
Kind(file) == IF IsVideo(file) THEN "video" ELSE "image"

\* react-dropzone with accept {'image/*': ImageExts, 'video/*': VideoExts}:
\* a file matches when its MIME type matches a listed wildcard or its name
\* ends in a listed extension.
AcceptsType(file) ==
    \/ file.type \in {"image", "video"}
    \/ file.ext \in ImageExts \cup VideoExts

\* ... and maxSize: larger files are rejected.
AcceptsSize(file) == file.size <= MaxSize

\* acceptedFiles handed to onDrop for a one-file drop (multiple: false)
AcceptedFiles(file) ==
    IF AcceptsType(file) /\ AcceptsSize(file) THEN <<file>> ELSE <<>>

\* apiClient uploadVideo onUploadProgress: the callback is called only when
\* one was passed and the total is known; <<>> is "not called".
ApiProgressPermille(onProgress, loaded, total) ==
    IF onProgress /\ total # 0 THEN <<Round(loaded * 1000, total)>> ELSE <<>>

ApiProgress(onProgress, loaded, total) ==
    IF onProgress /\ total # 0 THEN <<Round(loaded * 100, total)>> ELSE <<>>

----------------------------------------------------------------------------
(* Rendering: values and formatting *)

\* Numeric fields of a response are fractions, held in thousandths: 800 is 0.8
Scores == 0..1000

\* x?.field on an optional object
Get(opt, field) == IF opt = None THEN None ELSE opt[1][field]

\* x || d on an optional number (undefined and 0 are falsy)
NumOr(opt, d) == IF opt = None \/ opt[1] = 0 THEN d ELSE opt[1]

\* x || d on an optional string (undefined and '' are falsy)
StrOr(opt, d) == IF opt = None \/ opt[1] = "" THEN d ELSE opt[1]

\* Math.round(x * 100) of a fraction x
Percent(x) == Round(x, 10)

\* What a cell of the page shows: nothing (the element is not rendered), a
\* text, a number, or the text NaN
Cell(kind, text, value) == [kind |-> kind, text |-> text, value |-> value]
Hidden == Cell("hidden", "", 0)
Text(s) == Cell("text", s, 0)
Number(n) == Cell("number", "", n)

\* Variant of GetQualityColor whose upper tier starts at 0.8
GetQualityColorFrom(score) ==
    IF score >= 800 THEN "success"
    ELSE IF score > 600 THEN "warning" ELSE "error"

\* PoseAnalysis.getQualityColor(score)
GetQualityColor(score) ==
    IF score > 800 THEN "success"
    ELSE IF score > 600 THEN "warning" ELSE "error"

\* PlayerProgress, recent sessions table: colour of the bar and of the chip
SessionColor(quality) ==
    IF quality > 800 THEN "success"
    ELSE IF quality > 600 THEN "warning" ELSE "error"

\* PlayerProgress, recent sessions table: label of the chip
SessionLabel(quality) ==
    IF quality > 800 THEN "Excellent"
    ELSE IF quality > 600 THEN "Good" ELSE "Needs Work"

\* PlayerProgress, overall card: average_pose_quality of the progress data,
\* which loadPlayerProgress sets from its mock data
AveragePoseQuality == 780

\* PlayerProgress, overall card: colour of the average bar and of the
\* performance level chip
AverageColor(quality) == IF quality > 800 THEN "success" ELSE "warning"

\* PlayerProgress, overall card: label of the performance level chip
LevelLabel(quality) ==
    IF quality > 800 THEN "Advanced"
    ELSE IF quality > 600 THEN "Intermediate" ELSE "Beginner"

\* A string whose letters matter is a sequence of one-character strings.
Smooth == <<"s", "m", "o", "o", "t", "h">>
Moderate == <<"m", "o", "d", "e", "r", "a", "t", "e">>

\* The upper-case form of a character, itself when it has none
Upper(c) ==
    CASE c = "s" -> "S" [] c = "m" -> "M" [] c = "o" -> "O" [] c = "t" -> "T"
      [] c = "h" -> "H" [] c = "d" -> "D" [] c = "e" -> "E" [] c = "r" -> "R"
      [] c = "a" -> "A" [] OTHER -> c

\* The lower-case form of a character, itself when it has none
Lower(c) ==
    CASE c = "S" -> "s" [] c = "M" -> "m" [] c = "O" -> "o" [] c = "T" -> "t"
      [] c = "H" -> "h" [] c = "D" -> "d" [] c = "E" -> "e" [] c = "R" -> "r"
      [] c = "A" -> "a" [] OTHER -> c

\* Variant of ToLowerCase that leaves the string as it is
ToLowerCaseNone(str) == str

\* String.prototype.toLowerCase
ToLowerCase(str) == [i \in 1..Len(str) |-> Lower(str[i])]

\* VideoAnalysis.getMotionQualityColor(quality) for a string
GetMotionQualityColor(quality) ==
    LET q == ToLowerCase(quality)
    IN  CASE q = Smooth -> "success"
          [] q = Moderate -> "warning"
          [] OTHER -> "error"

\* Nothing rendered yet
NoScreen == [view |-> "", crashed |-> FALSE]

----------------------------------------------------------------------------
(* Component state *)

\* useState initial values of FileUpload
InitFileUpload ==
    [uploading |-> FALSE, uploadProgress |-> 0, uploadResult |-> None,
     error |-> Null]

\* useState initial values of PoseAnalysis and of VideoAnalysis
InitAnalysis == [analyzing |-> FALSE, result |-> None, error |-> Null]

\* The tab whose TabPanel renders the component
TabOf(via) ==
    CASE via = "FileUpload" -> 0
      [] via = "PoseAnalysis" -> 1
      [] via = "VideoAnalysis" -> 2
      [] OTHER -> -1

\* A request on the wire.  file: the multipart body (uploads); filename: the
\* path parameter (analyze calls); live: the component instance that awaits it
\* is still mounted; total/loaded: the transfer (total 0: length unknown);
\* last: the percentage last reported for it, -1 before the first report;
\* seq: its place in the order of sending among the outstanding requests;
\* late: a request sent after it, whose response goes to the same top-level
\* state, has been answered successfully in the meantime; authorization: its
\* Authorization header.
NoReq ==
    [id |-> 0, via |-> "", endpoint |-> "", file |-> NoFile, filename |-> Null,
     live |-> FALSE, onProgress |-> FALSE, total |-> 0, loaded |-> 0,
     last |-> -1, seq |-> 0, late |-> FALSE, authorization |-> Null]

UploadRequest(id, via, endpoint, file, onProgress, total) ==
    [NoReq EXCEPT !.id = id, !.via = via, !.endpoint = endpoint,
                  !.file = file, !.live = TRUE, !.onProgress = onProgress,
                  !.total = total, !.seq = Cardinality(pending),
                  !.authorization = Authorization(via, authToken)]

AnalyzeRequest(id, via, endpoint, filename) ==
    [NoReq EXCEPT !.id = id, !.via = via, !.endpoint = endpoint,
                  !.filename = filename, !.live = TRUE,
                  !.seq = Cardinality(pending),
                  !.authorization = Authorization(via, authToken)]

\* The top-level state the response of a request is written to
Target(via) ==
    CASE via = "FileUpload" -> "uploadedFile"
      [] via \in {"PoseAnalysis", "VideoAnalysis"} -> "analysisResult"
      [] OTHER -> ""

\* Variant of Answered in which a successful answer also cancels the older
\* requests it supersedes
AnsweredCancelsOlder(r, ok) ==
    {[q EXCEPT !.seq = 0]
       : q \in {p \in pending \ {r} :
                    ~(ok /\ p.seq < r.seq /\ Target(p.via) # ""
                         /\ Target(p.via) = Target(r.via))}}

\* Variant of Answered in which a failed request is sent again
AnsweredRetries(r, ok) ==
    IF ok
    THEN {[q EXCEPT !.seq = IF q.seq > r.seq THEN q.seq - 1 ELSE q.seq]
            : q \in pending \ {r}}
    ELSE pending

\* The outstanding requests once r has been answered (ok: successfully).
\* Nothing but its own answer takes a request off the wire: axios.post is
\* called without a cancel token or abort signal, and no component aborts on
\* unmount.
Answered(r, ok) ==
    {[q EXCEPT !.seq = IF q.seq > r.seq THEN q.seq - 1 ELSE q.seq,
               !.late = \/ q.late
                        \/ ok /\ q.seq < r.seq /\ Target(q.via) # ""
                              /\ Target(q.via) = Target(r.via)]
       : q \in pending \ {r}}

\* What a task did: the handler that ran, the id of the request it sent or
\* was run for (0: none), the file dropped, the response or error received,
\* its calls of onFileUpload, onAnalysisComplete and the progress callback,
\* for the response of a request that is late the top-level value it
\* replaced (stale), and the error an API client operation rejected with
\* (thrown).
NoEvent ==
    [op |-> "init", id |-> 0, file |-> NoFile, response |-> None,
     error |-> None, hook |-> <<>>, complete |-> <<>>, progress |-> <<>>,
     stale |-> <<>>, thrown |-> <<>>]

\* Requests are told apart by an id that no outstanding request has.
FreeId == CHOOSE i \in 1..(MaxPending + 1) : \A r \in pending : r.id # i

CanSend == Cardinality(pending) < MaxPending

\* TabPanel renders its child only while value = index: with activeTab = tab
\* every other component is unmounted, its state is gone (a later mount starts
\* from the initial values) and its outstanding requests stay on the wire.
Mounted(state, initial, via, tab) ==
    IF TabOf(via) = tab THEN state ELSE initial

Orphaned(reqs, tab) ==
    {IF r.via = "api" \/ TabOf(r.via) = tab THEN r
     ELSE [r EXCEPT !.live = FALSE] : r \in reqs}

\* The page after its first render, with token in the browser's storage
InitWith(token) ==
    /\ activeTab = 0
    /\ uploadedFile = Null
    /\ analysisResult = None
    /\ fileUpload = InitFileUpload
    /\ poseAnalysis = InitAnalysis
    /\ videoAnalysis = InitAnalysis
    /\ pending = {}
    /\ authToken = token
    /\ screen = NoScreen
    /\ ev = NoEvent

\* Nothing in the application stores 'auth_token': a browser that has only
\* run the application holds none.
Init == InitWith(Null)

\* A browser in which something else has stored (or not) a token
InitAuth == \E token \in Tokens : InitWith(token)

----------------------------------------------------------------------------
(* App *)

\* App.handleTabChange: setActiveTab(newValue)
HandleTabChange(newValue) ==
    /\ newValue # activeTab
    /\ activeTab' = newValue
    /\ fileUpload' = Mounted(fileUpload, InitFileUpload, "FileUpload", newValue)
    /\ poseAnalysis' =
           Mounted(poseAnalysis, InitAnalysis, "PoseAnalysis", newValue)
    /\ videoAnalysis' =
           Mounted(videoAnalysis, InitAnalysis, "VideoAnalysis", newValue)
    /\ pending' = Orphaned(pending, newValue)
    /\ ev' = [NoEvent EXCEPT !.op = "handleTabChange"]
    /\ UNCHANGED <<authToken, screen, uploadedFile, analysisResult>>

\* The tab App.handleFileUpload(filename) switches to; the fileType argument
\* FileUpload passes is not a parameter of the handler.
UploadTab(filename, fileType) == 1

\* Variant of HandleAnalysisComplete that stores nothing
HandleAnalysisCompleteDrop(result) == None

\* App.handleAnalysisComplete(result): setAnalysisResult(result)
HandleAnalysisComplete(result) == Some(result)

\* Variant of HandleFileUpload that switches the tab and drops the filename
HandleFileUploadNoStore(filename, fileType) ==
    LET tab == UploadTab(filename, fileType) IN
    /\ uploadedFile' = uploadedFile
    /\ activeTab' = tab
    /\ poseAnalysis' = Mounted(poseAnalysis, InitAnalysis, "PoseAnalysis", tab)
    /\ videoAnalysis' =
           Mounted(videoAnalysis, InitAnalysis, "VideoAnalysis", tab)

\* App.handleFileUpload, called by FileUpload as onFileUpload(filename,
\* fileType): setUploadedFile(filename); setActiveTab(1).  The new tab
\* unmounts FileUpload, so its own later state updates are dropped.
HandleFileUpload(filename, fileType) ==
    LET tab == UploadTab(filename, fileType) IN
    /\ uploadedFile' = filename
    /\ activeTab' = tab
    /\ poseAnalysis' = Mounted(poseAnalysis, InitAnalysis, "PoseAnalysis", tab)
    /\ videoAnalysis' =
           Mounted(videoAnalysis, InitAnalysis, "VideoAnalysis", tab)

----------------------------------------------------------------------------
(* FileUpload *)

\* onDrop before the request: setUploading(true); setError(null);
\* setUploadResult(null)
StartUpload(state) ==
    [state EXCEPT !.uploading = TRUE, !.error = Null, !.uploadResult = None]

\* onDrop after the request resolved: setUploadResult(response.data);
\* finally setUploading(false); setUploadProgress(0)
SucceedUpload(state, data) ==
    [state EXCEPT !.uploadResult = Some(data), !.uploading = FALSE,
                  !.uploadProgress = 0]

\* Variant of FailUpload with an empty catch block
FailUploadSilent(state, err) ==
    [state EXCEPT !.uploading = FALSE, !.uploadProgress = 0]

\* onDrop catch and finally: setError(detail || 'Upload failed');
\* setUploading(false); setUploadProgress(0)
FailUpload(state, err) ==
    [state EXCEPT !.error = ErrorDetail(err, "Upload failed"),
                  !.uploading = FALSE, !.uploadProgress = 0]

\* FileUpload.onDrop(acceptedFiles) for a drop of one file on the mounted
\* widget, up to the await of axios.post.
OnDrop(file, total) ==
    /\ activeTab = 0
    /\ LET acceptedFiles == AcceptedFiles(file) IN
       IF acceptedFiles = <<>>
       THEN /\ ev' = [NoEvent EXCEPT !.op = "onDrop", !.file = file]
            /\ UNCHANGED <<authToken, screen, activeTab, uploadedFile, analysisResult, fileUpload,
                           poseAnalysis, videoAnalysis, pending>>
       ELSE LET f == acceptedFiles[1]
                req == UploadRequest(FreeId, "FileUpload", Endpoint(f), f,
                                     TRUE, total)
            IN  /\ CanSend
                /\ fileUpload' = StartUpload(fileUpload)
                /\ pending' = pending \cup {req}
                /\ ev' = [NoEvent EXCEPT !.op = "onDrop", !.file = file, !.id = req.id]
                /\ UNCHANGED <<authToken, screen, activeTab, uploadedFile, analysisResult,
                               poseAnalysis, videoAnalysis>>

\* onUploadProgress of a FileUpload request: setUploadProgress(progress)
OnUploadProgress(r, loaded) ==
    LET progress == UploadPercent(loaded, r.total) IN
    /\ r \in pending
    /\ r.via = "FileUpload"
    /\ fileUpload' =
           IF r.live THEN [fileUpload EXCEPT !.uploadProgress = progress]
           ELSE fileUpload
    /\ pending' = (pending \ {r}) \cup
                      {[r EXCEPT !.loaded = loaded, !.last = progress]}
    /\ ev' = [NoEvent EXCEPT !.op = "onUploadProgress", !.id = r.id,
                             !.progress = <<progress>>]
    /\ UNCHANGED <<authToken, screen, activeTab, uploadedFile, analysisResult, poseAnalysis,
                   videoAnalysis>>

\* onDrop after axios.post resolved: setUploadResult(response.data);
\* onFileUpload(response.data.filename, isVideo ? 'video' : 'image');
\* finally setUploading(false); setUploadProgress(0)
UploadResolved(r, filename) ==
    LET data == UploadResponse(filename) IN
    /\ r \in pending
    /\ r.via = "FileUpload"
    /\ filename \in ServerNames(r.endpoint)
    /\ HandleFileUpload(data.filename, Kind(r.file))
    /\ fileUpload' =
           Mounted(IF r.live THEN SucceedUpload(fileUpload, data)
                   ELSE fileUpload,
                   InitFileUpload, "FileUpload", activeTab')
    /\ pending' = Orphaned(Answered(r, TRUE), activeTab')
    /\ ev' = [NoEvent EXCEPT
                  !.op = "uploadResolved", !.id = r.id, !.response = Some(data),
                  !.hook = <<[filename |-> data.filename,
                              fileType |-> Kind(r.file)]>>,
                  !.stale = IF r.late THEN <<uploadedFile>> ELSE <<>>]
    /\ UNCHANGED <<authToken, screen, analysisResult>>

\* onDrop after axios.post rejected: catch and finally
UploadRejected(r, err) ==
    /\ r \in pending
    /\ r.via = "FileUpload"
    /\ fileUpload' = IF r.live THEN FailUpload(fileUpload, err) ELSE fileUpload
    /\ pending' = Answered(r, FALSE)
    /\ ev' = [NoEvent EXCEPT !.op = "uploadRejected", !.id = r.id,
                             !.error = Some(err)]
    /\ UNCHANGED <<authToken, screen, activeTab, uploadedFile, analysisResult, poseAnalysis,
                   videoAnalysis>>

----------------------------------------------------------------------------
(* PoseAnalysis and VideoAnalysis *)

\* Variant of HasFile without the entry guard
HasFileAlways(file) == TRUE

\* if (!uploadedFile) return;
HasFile(file) == file # Null

\* Variant of StartAnalysis that leaves the prior error in place
StartAnalysisKeepError(state) == [state EXCEPT !.analyzing = TRUE]

\* setAnalyzing(true); setError(null)
StartAnalysis(state) == [state EXCEPT !.analyzing = TRUE, !.error = Null]

\* Variant of SucceedAnalysis that does not store the response
SucceedAnalysisNoStore(state, data) == [state EXCEPT !.analyzing = FALSE]

\* setResult(response.data); finally setAnalyzing(false)
SucceedAnalysis(state, data) ==
    [state EXCEPT !.result = Some(data), !.analyzing = FALSE]

\* Variant of FailAnalysis without the finally block
FailAnalysisStuck(state, err, fallback) ==
    [state EXCEPT !.error = ErrorDetail(err, fallback)]

\* setError(err.response?.data?.detail || fallback); finally
\* setAnalyzing(false)
FailAnalysis(state, err, fallback) ==
    [state EXCEPT !.error = ErrorDetail(err, fallback), !.analyzing = FALSE]

\* PoseAnalysis.analyzeFile, run by a click on Start Analysis (the button is
\* disabled while analyzing), up to the await of axios.post.
AnalyzeFile ==
    /\ activeTab = 1
    /\ ~poseAnalysis.analyzing
    /\ IF ~HasFile(uploadedFile)
       THEN /\ ev' = [NoEvent EXCEPT !.op = "analyzeFile"]
            /\ UNCHANGED <<poseAnalysis, pending>>
       ELSE LET req == AnalyzeRequest(FreeId, "PoseAnalysis", "/analyze-image",
                                      uploadedFile)
            IN  /\ CanSend
                /\ poseAnalysis' = StartAnalysis(poseAnalysis)
                /\ pending' = pending \cup {req}
                /\ ev' = [NoEvent EXCEPT !.op = "analyzeFile", !.id = req.id]
    /\ UNCHANGED <<authToken, screen, activeTab, uploadedFile, analysisResult, fileUpload,
                   videoAnalysis>>

\* PoseAnalysis.analyzeFile after axios.post resolved: setResult(response.data);
\* onAnalysisComplete(response.data); finally setAnalyzing(false)
AnalyzeFileResolved(r, analysis) ==
    LET data == AnalysisResponse(r.filename, analysis) IN
    /\ r \in pending
    /\ r.via = "PoseAnalysis"
    /\ poseAnalysis' =
           IF r.live THEN SucceedAnalysis(poseAnalysis, data) ELSE poseAnalysis
    /\ analysisResult' = HandleAnalysisComplete(data)
    /\ pending' = Answered(r, TRUE)
    /\ ev' = [NoEvent EXCEPT !.op = "analyzeFileResolved", !.id = r.id,
                             !.response = Some(data), !.complete = <<data>>,
                             !.stale = IF r.late THEN <<analysisResult>>
                                       ELSE <<>>]
    /\ UNCHANGED <<authToken, screen, activeTab, uploadedFile, fileUpload, videoAnalysis>>

\* PoseAnalysis.analyzeFile after axios.post rejected: catch and finally
AnalyzeFileRejected(r, err) ==
    /\ r \in pending
    /\ r.via = "PoseAnalysis"
    /\ poseAnalysis' =
           IF r.live THEN FailAnalysis(poseAnalysis, err, "Analysis failed")
           ELSE poseAnalysis
    /\ pending' = Answered(r, FALSE)
    /\ ev' = [NoEvent EXCEPT !.op = "analyzeFileRejected", !.id = r.id,
                             !.error = Some(err)]
    /\ UNCHANGED <<authToken, screen, activeTab, uploadedFile, analysisResult, fileUpload,
                   videoAnalysis>>

\* VideoAnalysis.analyzeVideo, run by a click on Start Video Analysis (the
\* button is disabled while analyzing), up to the await of axios.post.
AnalyzeVideo ==
    /\ activeTab = 2
    /\ ~videoAnalysis.analyzing
    /\ IF ~HasFile(uploadedFile)
       THEN /\ ev' = [NoEvent EXCEPT !.op = "analyzeVideo"]
            /\ UNCHANGED <<videoAnalysis, pending>>
       ELSE LET req == AnalyzeRequest(FreeId, "VideoAnalysis", "/analyze-video",
                                      uploadedFile)
            IN  /\ CanSend
                /\ videoAnalysis' = StartAnalysis(videoAnalysis)
                /\ pending' = pending \cup {req}
                /\ ev' = [NoEvent EXCEPT !.op = "analyzeVideo", !.id = req.id]
    /\ UNCHANGED <<authToken, screen, activeTab, uploadedFile, analysisResult, fileUpload,
                   poseAnalysis>>

\* VideoAnalysis.analyzeVideo after axios.post resolved
AnalyzeVideoResolved(r, analysis) ==
    LET data == AnalysisResponse(r.filename, analysis) IN
    /\ r \in pending
    /\ r.via = "VideoAnalysis"
    /\ videoAnalysis' =
           IF r.live THEN SucceedAnalysis(videoAnalysis, data)
           ELSE videoAnalysis
    /\ analysisResult' = HandleAnalysisComplete(data)
    /\ pending' = Answered(r, TRUE)
    /\ ev' = [NoEvent EXCEPT !.op = "analyzeVideoResolved", !.id = r.id,
                             !.response = Some(data), !.complete = <<data>>,
                             !.stale = IF r.late THEN <<analysisResult>>
                                       ELSE <<>>]
    /\ UNCHANGED <<authToken, screen, activeTab, uploadedFile, fileUpload, poseAnalysis>>

\* VideoAnalysis.analyzeVideo after axios.post rejected
AnalyzeVideoRejected(r, err) ==
    /\ r \in pending
    /\ r.via = "VideoAnalysis"
    /\ videoAnalysis' =
           IF r.live
           THEN FailAnalysis(videoAnalysis, err, "Video analysis failed")
           ELSE videoAnalysis
    /\ pending' = Answered(r, FALSE)
    /\ ev' = [NoEvent EXCEPT !.op = "analyzeVideoRejected", !.id = r.id,
                             !.error = Some(err)]
    /\ UNCHANGED <<authToken, screen, activeTab, uploadedFile, analysisResult, fileUpload,
                   poseAnalysis>>

----------------------------------------------------------------------------
(* Rendering of the results *)

\* The analysis object of an analyze-image response, as PoseAnalysis reads it.
\* Every field is optional: <<>> when absent, <<value>> when present.
PoseData(top_down_prediction, quality_score, analysis) ==
    [top_down_prediction |-> top_down_prediction,
     quality_score |-> quality_score, analysis |-> analysis]

\* top_down_prediction: {class, confidence}
Prediction(class, confidence) == [class |-> class, confidence |-> confidence]

\* analysis.analysis: {quality_assessment: {rating}, feedback, pose_metrics}
PoseDetails(quality_assessment, feedback, pose_metrics) ==
    [quality_assessment |-> quality_assessment, feedback |-> feedback,
     pose_metrics |-> pose_metrics]

\* analysis.analysis.feedback of an image response
PoseFeedback(strengths, improvements, technique_tips) ==
    [strengths |-> strengths, improvements |-> improvements,
     technique_tips |-> technique_tips]

\* analysis.analysis.pose_metrics
PoseMetrics(balance_ratio, torso_angle) ==
    [balance_ratio |-> balance_ratio, torso_angle |-> torso_angle]

\* x?.toFixed(n) || 'N/A': the formatted number (0 included: '0.00' is a
\* non-empty string), N/A for an absent one
FixedOrNA(opt) == IF opt = None THEN Text("N/A") ELSE Number(opt[1])

\* list?.length > 0 && (section): the items shown, none when the section is
\* not rendered
Section(opt) == IF opt # None /\ Len(opt[1]) > 0 THEN opt[1] ELSE <<>>

\* What PoseAnalysis renders below its action panel for its state
PoseView(state) ==
    IF state.result = None \/ state.result[1].analysis = None
    THEN [view |-> "PoseAnalysis", crashed |-> FALSE, results |-> FALSE]
    ELSE LET data == state.result[1].analysis[1]
             details == data.analysis
             feedback == Get(details, "feedback")
             metrics == Get(details, "pose_metrics")
             score == NumOr(data.quality_score, 0)
         IN  [view |-> "PoseAnalysis", crashed |-> FALSE, results |-> TRUE,
              class |-> Text(StrOr(Get(data.top_down_prediction, "class"),
                                   "Unknown")),
              confidence |->
                  Number(Percent(NumOr(Get(data.top_down_prediction,
                                           "confidence"), 0))),
              rating |-> Text(StrOr(Get(Get(details, "quality_assessment"),
                                        "rating"), "Unknown")),
              qualityBar |-> score,
              qualityColor |-> GetQualityColor(score),
              score |-> Number(Percent(score)),
              strengths |-> Section(Get(feedback, "strengths")),
              improvements |-> Section(Get(feedback, "improvements")),
              technique_tips |-> Section(Get(feedback, "technique_tips")),
              balance_ratio |->
                  IF metrics = None THEN Hidden
                  ELSE FixedOrNA(metrics[1].balance_ratio),
              torso_angle |->
                  IF metrics = None THEN Hidden
                  ELSE FixedOrNA(metrics[1].torso_angle)]

\* The analysis object of an analyze-video response, as VideoAnalysis reads
\* it; every field is optional.
VideoData(feedback, overall_prediction, sequence_length, motion_analysis) ==
    [feedback |-> feedback, overall_prediction |-> overall_prediction,
     sequence_length |-> sequence_length, motion_analysis |-> motion_analysis]

\* analysis.motion_analysis
MotionAnalysis(motion_quality, smoothness_score, rhythm_consistency, velocity) ==
    [motion_quality |-> motion_quality, smoothness_score |-> smoothness_score,
     rhythm_consistency |-> rhythm_consistency,
     average_velocity |-> velocity]

\* analysis.feedback of a video response
VideoFeedback(overall_assessment, key_observations, improvement_areas, drills_recommended) ==
    [overall_assessment |-> overall_assessment,
     key_observations |-> key_observations,
     improvement_areas |-> improvement_areas,
     drills_recommended |-> drills_recommended]

\* Math.round(x * 100) + '%' of an optional number: undefined * 100 is NaN
PercentOrNaN(opt) ==
    IF opt = None THEN Cell("NaN", "", 0) ELSE Number(Percent(opt[1]))

\* x > 0.7 ? 'success' : 'warning' (undefined > 0.7 is false)
ScoreColor(opt) ==
    IF opt # None /\ opt[1] > 700 THEN "success" ELSE "warning"

\* sequence_length && (Analyzed n frames): React renders the number 0 itself
FramesCell(opt) ==
    IF opt = None THEN Hidden
    ELSE IF opt[1] = 0 THEN Number(0) ELSE Cell("frames", "", opt[1])

\* The render throws: getMotionQualityColor calls toLowerCase on undefined
\* when motion_analysis has no motion_quality.
VideoThrows(data) ==
    /\ data.motion_analysis # None
    /\ data.motion_analysis[1].motion_quality = None

\* What VideoAnalysis renders below its action panel for its state.  An
\* error thrown while rendering is caught by no error boundary: React
\* unmounts the whole page.
VideoView(state) ==
    IF state.result = None \/ state.result[1].analysis = None
    THEN [view |-> "VideoAnalysis", crashed |-> FALSE, results |-> FALSE]
    ELSE LET data == state.result[1].analysis[1]
             motion == data.motion_analysis
         IN  IF VideoThrows(data)
             THEN [view |-> "VideoAnalysis", crashed |-> TRUE,
                   results |-> FALSE]
             ELSE [view |-> "VideoAnalysis", crashed |-> FALSE,
                   results |-> TRUE,
                   assessment |->
                       Text(StrOr(Get(data.feedback, "overall_assessment"),
                                  "Analysis complete")),
                   pattern |->
                       IF data.overall_prediction = None THEN Hidden
                       ELSE Text(StrOr(data.overall_prediction[1]
                                           .top_down_class, "")),
                   frames |-> FramesCell(data.sequence_length),
                   motion |-> motion # None,
                   motionLabel |->
                       IF motion = None THEN <<>>
                       ELSE motion[1].motion_quality[1],
                   motionColor |->
                       IF motion = None THEN ""
                       ELSE GetMotionQualityColor(
                                motion[1].motion_quality[1]),
                   smoothness |->
                       IF motion = None THEN Hidden
                       ELSE PercentOrNaN(motion[1].smoothness_score),
                   smoothnessColor |->
                       IF motion = None THEN ""
                       ELSE ScoreColor(motion[1].smoothness_score),
                   rhythm |->
                       IF motion = None THEN Hidden
                       ELSE PercentOrNaN(motion[1].rhythm_consistency),
                   rhythmColor |->
                       IF motion = None THEN ""
                       ELSE ScoreColor(motion[1].rhythm_consistency),
                   average_velocity |->
                       IF motion = None THEN Hidden
                       ELSE FixedOrNA(motion[1].average_velocity),
                   key_observations |->
                       Section(Get(data.feedback, "key_observations")),
                   improvement_areas |->
                       Section(Get(data.feedback, "improvement_areas")),
                   drills_recommended |->
                       Section(Get(data.feedback, "drills_recommended"))]

\* A render of VideoAnalysis, the view of tab 2
RenderVideo ==
    /\ activeTab = 2
    /\ screen' = VideoView(videoAnalysis)
    /\ ev' = [NoEvent EXCEPT !.op = "renderVideo"]
    /\ UNCHANGED <<activeTab, uploadedFile, analysisResult, fileUpload,
                   poseAnalysis, videoAnalysis, pending, authToken>>

\* A render of PoseAnalysis, the view of tab 1
RenderPose ==
    /\ activeTab = 1
    /\ screen' = PoseView(poseAnalysis)
    /\ ev' = [NoEvent EXCEPT !.op = "renderPose"]
    /\ UNCHANGED <<activeTab, uploadedFile, analysisResult, fileUpload,
                   poseAnalysis, videoAnalysis, pending, authToken>>

\* A render of one row of the recent sessions table of PlayerProgress, the
\* view of tab 3, for a session with this quality
RenderSession(quality) ==
    /\ activeTab = 3
    /\ screen' = [view |-> "PlayerProgress", crashed |-> FALSE,
                  quality |-> quality,
                  percent |-> Number(Percent(quality)),
                  barColor |-> SessionColor(quality),
                  label |-> SessionLabel(quality),
                  chipColor |-> SessionColor(quality)]
    /\ ev' = [NoEvent EXCEPT !.op = "renderSession"]
    /\ UNCHANGED <<activeTab, uploadedFile, analysisResult, fileUpload,
                   poseAnalysis, videoAnalysis, pending, authToken>>

\* A render of the overall card of PlayerProgress: the average quality bar
\* and the performance level chip
RenderProgress ==
    /\ activeTab = 3
    /\ screen' = [view |-> "PlayerProgress", crashed |-> FALSE,
                  quality |-> AveragePoseQuality,
                  percent |-> Number(Percent(AveragePoseQuality)),
                  barColor |-> AverageColor(AveragePoseQuality),
                  label |-> LevelLabel(AveragePoseQuality),
                  chipColor |-> AverageColor(AveragePoseQuality)]
    /\ ev' = [NoEvent EXCEPT !.op = "renderProgress"]
    /\ UNCHANGED <<activeTab, uploadedFile, analysisResult, fileUpload,
                   poseAnalysis, videoAnalysis, pending, authToken>>

\* The application showing tab with a stored result in each analysis view
\* that is mounted: the state after an upload and a successful analysis.
InitRender(tab, filename, pose, video) ==
    /\ activeTab = tab
    /\ uploadedFile = filename
    /\ analysisResult = None
    /\ fileUpload = InitFileUpload
    /\ poseAnalysis =
           Mounted([InitAnalysis EXCEPT !.result = pose], InitAnalysis,
                   "PoseAnalysis", tab)
    /\ videoAnalysis =
           Mounted([InitAnalysis EXCEPT !.result = video], InitAnalysis,
                   "VideoAnalysis", tab)
    /\ pending = {}
    /\ authToken = Null
    /\ screen = NoScreen
    /\ ev = NoEvent

\* Optional values of a set
Optional(S) == {None} \cup {Some(x) : x \in S}

\* Responses that differ in the quality score, with and without a prediction
QualityResponses ==
    {AnalysisResponse("i1.png", Some(PoseData(p, q, None))) :
        p \in Optional({Prediction(Some("jump_shot"), Some(905))}),
        q \in Optional(Scores)}

InitQuality ==
    \/ \E r \in QualityResponses : InitRender(1, "i1.png", Some(r), None)
    \/ InitRender(3, "i1.png", None, None)

NextQuality ==
    \/ RenderPose
    \/ \E quality \in Scores : RenderSession(quality)

\* Scores around the thresholds of the views
TierScores == {0, 600, 601, 700, 701, 800, 801, 1000}

\* analyze-video responses that differ in the two scores of the motion card
ScoreResponses ==
    {AnalysisResponse("v1.mp4",
         Some(VideoData(None, None, None,
                  Some(MotionAnalysis(Some(Smooth), Some(s1), Some(s2),
                                      None))))) :
        s1 \in TierScores, s2 \in TierScores}

InitColours ==
    \/ InitQuality
    \/ \E r \in ScoreResponses : InitRender(2, "v1.mp4", None, Some(r))

NextColours ==
    \/ NextQuality
    \/ RenderVideo
    \/ RenderProgress

\* Every element of the three views that a quality score colours
SpecColours == InitColours /\ [][NextColours]_vars

\* Every way of writing a word in upper- and lower-case letters
RECURSIVE Casings(_)
Casings(word) ==
    IF word = <<>> THEN {<<>>}
    ELSE {<<c>> \o rest : c \in {Head(word), Upper(Head(word))},
                          rest \in Casings(Tail(word))}

\* Motion quality strings: the two words in every casing, and strings that
\* are neither (empty, a prefix, a word with a letter or a blank added,
\* other words)
MotionQualities ==
    Casings(Smooth) \cup Casings(Moderate) \cup
    {<<>>, SubSeq(Smooth, 1, 5), Smooth \o <<"h">>, Smooth \o <<" ">>,
     <<" ">> \o Moderate, SubSeq(Moderate, 1, 7), Smooth \o Moderate,
     <<"j", "e", "r", "k", "y">>, <<"P", "O", "O", "R">>}

MotionResponses ==
    {AnalysisResponse("v1.mp4",
         Some(VideoData(None, None, None,
                  Some(MotionAnalysis(Some(q), Some(750), Some(640),
                                      Some(12)))))) :
        q \in MotionQualities}

InitMotion == \E r \in MotionResponses : InitRender(2, "v1.mp4", None, Some(r))

NextMotion == RenderVideo

\* The motion quality chip of VideoAnalysis for every motion quality string
SpecMotion == InitMotion /\ [][NextMotion]_vars

\* A list field: absent, empty, or with an item
Lists == Optional({<<>>, <<"item">>})

\* analyze-image responses with every subset of the fields absent
PoseResponses ==
    {AnalysisResponse("i1.png", a) :
        a \in Optional(
            {PoseData(p, q, d) :
                p \in Optional({Prediction(c, n) :
                                   c \in Optional({"jump_shot"}),
                                   n \in Optional({905})}),
                q \in Optional({0, 815}),
                d \in Optional(
                    {PoseDetails(r, f, m) :
                        r \in Optional({[rating |-> x] :
                                           x \in Optional({"Good"})}),
                        f \in Optional({PoseFeedback(l1, l2, l3) :
                                           l1 \in Lists, l2 \in Lists,
                                           l3 \in Optional({<<"item">>})}),
                        m \in Optional({PoseMetrics(b, t) :
                                           b \in Optional({0, 52}),
                                           t \in Optional({15})})})})}

\* analyze-video responses with every subset of the fields absent
VideoResponses ==
    {AnalysisResponse("v1.mp4", a) :
        a \in Optional(
            {VideoData(f, p, n, m) :
                f \in Optional({VideoFeedback(o, l1, l2, l3) :
                                   o \in Optional({"Fluid motion"}),
                                   l1 \in Lists,
                                   l2 \in Optional({<<"item">>}),
                                   l3 \in Lists}),
                p \in Optional({[top_down_class |-> c] :
                                   c \in Optional({"jump_shot"})}),
                n \in Optional({0, 30}),
                m \in Optional({MotionAnalysis(q, s1, s2, v) :
                                   q \in Optional({Smooth}),
                                   s1 \in Optional({750}),
                                   s2 \in Optional({640}),
                                   v \in Optional({0, 12})})})}

InitResults ==
    \/ \E r \in PoseResponses : InitRender(1, "i1.png", Some(r), None)
    \/ \E r \in VideoResponses : InitRender(2, "v1.mp4", None, Some(r))

NextResults ==
    \/ RenderPose
    \/ RenderVideo

\* The analysis views rendering a stored response, whatever fields it has
SpecResults == InitResults /\ [][NextResults]_vars

\* The quality tier of every score, as PoseAnalysis and PlayerProgress show it
SpecQuality == InitQuality /\ [][NextQuality]_vars

----------------------------------------------------------------------------
(* API client (services/api.ts) *)

\* Files handed to the client by a caller; the client does not filter them.
ApiFiles == {File("video", ".mp4", MaxSize)}

\* poseAnalysisAPI.uploadVideo(file, onProgress?) up to the await
ApiUploadVideo(file, onProgress, total) ==
    LET req == UploadRequest(FreeId, "api", "/pose/upload-video", file,
                             onProgress, total)
    IN  /\ CanSend
        /\ pending' = pending \cup {req}
        /\ ev' = [NoEvent EXCEPT !.op = "apiUploadVideo", !.file = file, !.id = req.id]
        /\ UNCHANGED <<authToken, screen, activeTab, uploadedFile, analysisResult, fileUpload,
                       poseAnalysis, videoAnalysis>>

\* Image files handed to the client by a caller
ApiImages == {File("image", ".png", MaxSize)}

\* poseAnalysisAPI.uploadImage(file) up to the await.  The operation has no
\* parameter for a progress callback: onProgress is whether its caller holds
\* one for this transfer, which the operation does not take.
ApiUploadImage(file, onProgress, total) ==
    LET req == UploadRequest(FreeId, "api", "/pose/upload-image", file,
                             onProgress, total)
    IN  /\ CanSend
        /\ pending' = pending \cup {req}
        /\ ev' = [NoEvent EXCEPT !.op = "apiUploadImage", !.file = file, !.id = req.id]
        /\ UNCHANGED <<authToken, screen, activeTab, uploadedFile, analysisResult, fileUpload,
                       poseAnalysis, videoAnalysis>>

\* A transport progress event of an uploadImage request: the request is
\* posted without onUploadProgress, so nothing is called.
ApiImageProgress(r, loaded) ==
    /\ r \in pending
    /\ r.via = "api"
    /\ r.endpoint = "/pose/upload-image"
    /\ pending' = (pending \ {r}) \cup {[r EXCEPT !.loaded = loaded]}
    /\ ev' = [NoEvent EXCEPT !.op = "apiImageProgress", !.id = r.id]
    /\ UNCHANGED <<authToken, screen, activeTab, uploadedFile, analysisResult, fileUpload,
                   poseAnalysis, videoAnalysis>>

\* The other operations of poseAnalysisAPI and the path each one calls
ApiOperations ==
    {"analyzeImage", "analyzeVideo", "getPoseClasses",
     "getAnalysisHistory", "trackPlayerProgress", "getPlayerProgress",
     "cleanupFile"}

ApiEndpoint(operation) ==
    CASE operation = "analyzeImage" -> "/pose/analyze-image"
      [] operation = "analyzeVideo" -> "/pose/analyze-video"
      [] operation = "getPoseClasses" -> "/pose/pose-classes"
      [] operation = "getAnalysisHistory" -> "/pose/analysis-history"
      [] operation = "trackPlayerProgress" -> "/pose/player-progress"
      [] operation = "getPlayerProgress" -> "/pose/player-progress/"
      [] operation = "cleanupFile" -> "/pose/cleanup"

\* poseAnalysisAPI.<operation>(...) up to the await: one call of apiClient
ApiCall(operation) ==
    LET req == [NoReq EXCEPT
                    !.id = FreeId, !.via = "api",
                    !.endpoint = ApiEndpoint(operation), !.live = TRUE,
                    !.seq = Cardinality(pending),
                    !.authorization = Authorization("api", authToken)]
    IN  /\ CanSend
        /\ pending' = pending \cup {req}
        /\ ev' = [NoEvent EXCEPT !.op = "apiCall", !.id = req.id]
        /\ UNCHANGED <<authToken, screen, activeTab, uploadedFile, analysisResult,
                       fileUpload, poseAnalysis, videoAnalysis>>

\* poseAnalysisAPI.<operation> resolved: return response.data
ApiCallResolved(r) ==
    /\ r \in pending
    /\ r.via = "api"
    /\ r.endpoint # "/pose/upload-video"
    /\ pending' = Answered(r, TRUE)
    /\ ev' = [NoEvent EXCEPT !.op = "apiCallResolved", !.id = r.id,
                             !.response = Some([data |-> r.endpoint])]
    /\ UNCHANGED <<authToken, screen, activeTab, uploadedFile, analysisResult,
                   fileUpload, poseAnalysis, videoAnalysis>>

\* onUploadProgress of an uploadVideo request
ApiOnUploadProgress(r, loaded) ==
    LET called == ApiProgress(r.onProgress, loaded, r.total) IN
    /\ r \in pending
    /\ r.via = "api"
    /\ r.endpoint = "/pose/upload-video"
    /\ pending' = (pending \ {r}) \cup
                      {[r EXCEPT !.loaded = loaded,
                                 !.last = IF called = <<>> THEN r.last
                                          ELSE called[1]]}
    /\ ev' = [NoEvent EXCEPT !.op = "apiOnUploadProgress", !.id = r.id,
                             !.progress = called]
    /\ UNCHANGED <<authToken, screen, activeTab, uploadedFile, analysisResult, fileUpload,
                   poseAnalysis, videoAnalysis>>

\* uploadVideo resolved: return response.data
ApiUploadResolved(r, filename) ==
    /\ r \in pending
    /\ r.via = "api"
    /\ r.endpoint = "/pose/upload-video"
    /\ filename \in VideoNames
    /\ pending' = Answered(r, TRUE)
    /\ ev' = [NoEvent EXCEPT !.op = "apiUploadResolved", !.id = r.id,
                             !.response = Some(UploadResponse(filename))]
    /\ UNCHANGED <<authToken, screen, activeTab, uploadedFile, analysisResult, fileUpload,
                   poseAnalysis, videoAnalysis>>

\* The message property axios gives the error of a failed request
AxiosMessage(err) ==
    IF err.response THEN "Request failed with status code 404"
    ELSE "Network Error"

\* apiClient response interceptor, error handler: console.error; return
\* Promise.reject(error).  The value rejected with is the error of axios as
\* it came in: its own message, and the response body under response.data.
ResponseInterceptor(err) ==
    [message |-> AxiosMessage(err), response |-> err.response,
     detail |-> err.detail]

\* A call of apiClient rejected: the response interceptor logs the error and
\* passes it on, and the operation lets it propagate to its caller.
ApiUploadRejected(r, err) ==
    /\ r \in pending
    /\ r.via = "api"
    /\ pending' = Answered(r, FALSE)
    /\ ev' = [NoEvent EXCEPT !.op = "apiUploadRejected", !.id = r.id,
                             !.error = Some(err),
                             !.thrown = <<ResponseInterceptor(err)>>]
    /\ UNCHANGED <<authToken, screen, activeTab, uploadedFile, analysisResult, fileUpload,
                   poseAnalysis, videoAnalysis>>

----------------------------------------------------------------------------
(* Specification *)

Tabs == 0..3

\* Bytes a progress event of request r can report: more than the event
\* before it, at most the total when it is known.
Loaded(r) == (r.loaded + 1)..(IF r.total = 0 THEN MaxTotal ELSE r.total)

Totals == {0, MaxTotal}

Next ==
    \/ \E newValue \in Tabs : HandleTabChange(newValue)
    \/ \E file \in Files, total \in Totals : OnDrop(file, total)
    \/ \E r \in pending : \E loaded \in Loaded(r) : OnUploadProgress(r, loaded)
    \/ \E r \in pending : \E filename \in Names : UploadResolved(r, filename)
    \/ \E r \in pending : \E err \in Errors : UploadRejected(r, err)
    \/ AnalyzeFile
    \/ \E r \in pending : \E a \in Analyses : AnalyzeFileResolved(r, a)
    \/ \E r \in pending : \E err \in Errors : AnalyzeFileRejected(r, err)
    \/ AnalyzeVideo
    \/ \E r \in pending : \E a \in Analyses : AnalyzeVideoResolved(r, a)
    \/ \E r \in pending : \E err \in Errors : AnalyzeVideoRejected(r, err)

\* poseAnalysisAPI.uploadVideo with its callers
NextApiUpload ==
    \/ \E file \in ApiFiles, onProgress \in BOOLEAN, total \in Totals :
           ApiUploadVideo(file, onProgress, total)
    \/ \E r \in pending : \E loaded \in Loaded(r) :
           ApiOnUploadProgress(r, loaded)
    \/ \E r \in pending : \E filename \in Names : ApiUploadResolved(r, filename)
    \/ \E r \in pending : \E err \in Errors : ApiUploadRejected(r, err)

NextApi ==
    \/ NextApiUpload
    \/ \E file \in ApiImages, onProgress \in BOOLEAN, total \in Totals :
           ApiUploadImage(file, onProgress, total)
    \/ \E r \in pending : \E loaded \in Loaded(r) : ApiImageProgress(r, loaded)
    \/ \E operation \in ApiOperations : ApiCall(operation)
    \/ \E r \in pending : ApiCallResolved(r)

\* The application: App with the three components it mounts.
Spec == Init /\ [][Next]_vars

\* The API client with its callers.
SpecApi == InitAuth /\ [][NextApi]_vars

\* Every upload path: the FileUpload widget under App's tabs, and the API
\* client's uploadVideo.
NextUpload ==
    \/ \E newValue \in Tabs : HandleTabChange(newValue)
    \/ \E file \in Files, total \in Totals : OnDrop(file, total)
    \/ \E r \in pending : \E loaded \in Loaded(r) : OnUploadProgress(r, loaded)
    \/ \E r \in pending : \E filename \in Names : UploadResolved(r, filename)
    \/ \E r \in pending : \E err \in Errors : UploadRejected(r, err)
    \/ NextApiUpload

SpecUpload == Init /\ [][NextUpload]_vars

\* Every sender of requests with the successful answers, in a browser with or
\* without a stored token
NextAuth ==
    \/ \E newValue \in Tabs : HandleTabChange(newValue)
    \/ \E file \in Files, total \in Totals : OnDrop(file, total)
    \/ \E r \in pending : \E filename \in Names : UploadResolved(r, filename)
    \/ AnalyzeFile
    \/ \E r \in pending : \E a \in Analyses : AnalyzeFileResolved(r, a)
    \/ AnalyzeVideo
    \/ \E r \in pending : \E a \in Analyses : AnalyzeVideoResolved(r, a)
    \/ \E file \in ApiFiles, onProgress \in BOOLEAN, total \in Totals :
           ApiUploadVideo(file, onProgress, total)
    \/ \E r \in pending : \E filename \in Names : ApiUploadResolved(r, filename)
    \/ \E file \in ApiImages : ApiUploadImage(file, FALSE, 0)
    \/ \E operation \in ApiOperations : ApiCall(operation)
    \/ \E r \in pending : ApiCallResolved(r)

SpecAuth == InitAuth /\ [][NextAuth]_vars

\* The request with this id among the outstanding ones
Req(id) == CHOOSE r \in pending : r.id = id

----------------------------------------------------------------------------
(* Properties *)

LiveUploads == {r \in pending : r.via = "FileUpload" /\ r.live}

AnalyzeOps == {"analyzeFile", "analyzeVideo"}

\* C1: the upload workflow is non-reentrant: a drop while an upload request
\* of the widget is outstanding is ignored, so the mounted widget never has
\* two upload requests in flight.
NonReentrantUpload == Cardinality(LiveUploads) <= 1

\* C2: for every drop of a file larger than 50MB or with an extension outside
\* the allow-list, no upload request is sent and the widget shows a validation
\* message (its error alert is the only message region it renders).
RejectedDropShowsMessage ==
    (/\ ev.op = "onDrop"
     /\ \/ ev.file.size > MaxSize
        \/ ev.file.ext \notin ImageExts \cup VideoExts)
    => (ev.id = 0 /\ fileUpload.error # Null)

\* C3: every successful upload calls onFileUpload exactly once, with the
\* filename field of its response and with kind "video" iff the MIME type of
\* the dropped file starts with "video/"; the request went to /upload-video in
\* exactly that case and to /upload-image otherwise; no other task calls it.
UploadReportsFilenameAndKind ==
    [][IF ev'.op = "uploadResolved"
       THEN LET r == Req(ev'.id)
                video == r.file.type = "video"
            IN  /\ ev'.hook =
                       <<[filename |-> ev'.response[1].filename,
                          fileType |-> IF video THEN "video" ELSE "image"]>>
                /\ r.endpoint = IF video THEN "/upload-video"
                                ELSE "/upload-image"
       ELSE ev'.hook = <<>>]_vars

\* C3 witness: an upload of a video file succeeded and was reported as video.
UploadReportedVideo ==
    /\ ev.op = "uploadResolved"
    /\ ev.hook # <<>>
    /\ ev.hook[1].fileType = "video"
    /\ uploadedFile = ev.hook[1].filename

\* C4: after a successful upload reported (filename, kind), App shows the
\* analysis view of that kind: tab 1 (PoseAnalysis) for "image", tab 2
\* (VideoAnalysis) for "video".
UploadSelectsViewOfKind ==
    (ev.op = "uploadResolved")
    => activeTab = (IF ev.hook[1].fileType = "video" THEN 2 ELSE 1)

\* C5: every analyze request is issued for the media kind of the uploaded
\* file: no analyze-image request for a filename uploaded as a video, no
\* analyze-video request for a filename uploaded as an image.
AnalyzeMatchesUploadKind ==
    \A r \in pending :
        /\ r.endpoint = "/analyze-image" => UploadedAs(r.filename) = "image"
        /\ r.endpoint = "/analyze-video" => UploadedAs(r.filename) = "video"

ProgressOps == {"onUploadProgress", "apiOnUploadProgress"}

UploadResolvedOps == {"uploadResolved", "apiUploadResolved"}

\* Each value a progress event reports is at least the value reported before
\* it for the same upload.
ProgressNeverDecreases ==
    [][ev'.op \in ProgressOps
       => \A i \in 1..Len(ev'.progress) : ev'.progress[i] >= Req(ev'.id).last]_vars

AnalyzeWithoutFileIsNoOp ==
    /\ [](uploadedFile = Null
            => \A r \in pending : r.via \notin {"PoseAnalysis", "VideoAnalysis"})
    /\ [][(uploadedFile = Null /\ ev'.op \in AnalyzeOps)
          => (/\ ev'.id = 0
              /\ pending' = pending
              /\ poseAnalysis' = poseAnalysis
              /\ videoAnalysis' = videoAnalysis)]_vars

\* C7 witness: the action ran on a mounted view with no uploaded filename.
AnalyzedWithoutFile ==
    /\ ev.op \in AnalyzeOps
    /\ uploadedFile = Null
    /\ activeTab \in {1, 2}

\* C8 as stated: while a view is Analyzing it holds neither an old result nor
\* an old error.
AnalysisClearsResultAndError ==
    /\ poseAnalysis.analyzing
           => (poseAnalysis.result = None /\ poseAnalysis.error = Null)
    /\ videoAnalysis.analyzing
           => (videoAnalysis.result = None /\ videoAnalysis.error = Null)

\* C8 amended: a run of the analysis action with a known filename clears the
\* view's prior error and keeps its prior result: while Analyzing the view
\* holds no error, and its result is the one it held before the run.
AnalysisClearsErrorKeepsResult ==
    /\ [](poseAnalysis.analyzing => poseAnalysis.error = Null)
    /\ [](videoAnalysis.analyzing => videoAnalysis.error = Null)
    /\ [][(ev'.op = "analyzeFile" /\ uploadedFile # Null)
          => (/\ poseAnalysis'.analyzing
              /\ poseAnalysis'.error = Null
              /\ poseAnalysis'.result = poseAnalysis.result)]_vars
    /\ [][(ev'.op = "analyzeVideo" /\ uploadedFile # Null)
          => (/\ videoAnalysis'.analyzing
              /\ videoAnalysis'.error = Null
              /\ videoAnalysis'.result = videoAnalysis.result)]_vars

\* C8 witness: a view holding the result of an earlier analysis was run again:
\* it is Analyzing, shows no error and still holds the old result.
AnalyzingWithOldResult ==
    /\ ev.op = "analyzeFile"
    /\ poseAnalysis.analyzing
    /\ poseAnalysis.result # None
    /\ poseAnalysis.error = Null

\* The message a rejection displays: the detail string of the error payload,
\* the view's generic message when no detail is available.
Displayed(err, generic) ==
    IF err.response /\ err.detail \notin {Null, ""} THEN err.detail ELSE generic

\* The state, after a step, of the view a request came from
ViewOfNext(r) == IF r.via = "PoseAnalysis" THEN poseAnalysis' ELSE videoAnalysis'

GenericOf(r) ==
    IF r.via = "PoseAnalysis" THEN "Analysis failed" ELSE "Video analysis failed"

AnalyzeRejectedOps == {"analyzeFileRejected", "analyzeVideoRejected"}

AnalyzeResolvedOps == {"analyzeFileResolved", "analyzeVideoResolved"}

\* A rejected analyze call leaves every stored result as it was.
RejectionKeepsResults ==
    [][ev'.op \in AnalyzeRejectedOps
       => (/\ poseAnalysis'.result = poseAnalysis.result
           /\ videoAnalysis'.result = videoAnalysis.result
           /\ analysisResult' = analysisResult)]_vars

\* C9 as stated: when an analyze call is rejected, the error of the view is
\* the detail string of the error payload (the generic message without one),
\* and the view's result and App's analysisResult are unchanged.
RejectionShowsDetail ==
    /\ RejectionKeepsResults
    /\ [][ev'.op \in AnalyzeRejectedOps
          => LET r == Req(ev'.id)
             IN  ViewOfNext(r).error = Displayed(ev'.error[1], GenericOf(r))]_vars

\* C9 amended: the same, for a call whose view is still mounted when the
\* rejection arrives; the rejection of a call whose view was unmounted in the
\* meantime is shown nowhere and changes no component's state.
MountedViewShowsDetail ==
    /\ RejectionKeepsResults
    /\ [][ev'.op \in AnalyzeRejectedOps
          => LET r == Req(ev'.id)
             IN  IF r.live
                 THEN /\ ViewOfNext(r).error =
                             Displayed(ev'.error[1], GenericOf(r))
                      /\ ~ViewOfNext(r).analyzing
                 ELSE /\ poseAnalysis' = poseAnalysis
                      /\ videoAnalysis' = videoAnalysis]_vars

\* C9 witness: a view that holds an earlier result shows the remote detail of
\* a rejected call, and App still holds a result.
RejectionDetailShown ==
    /\ ev.op = "analyzeFileRejected"
    /\ poseAnalysis.error = "file not found"
    /\ poseAnalysis.result # None
    /\ analysisResult # None

\* Every successful analyze call calls onAnalysisComplete exactly once with
\* the response payload, which becomes App's analysisResult; no other task
\* calls it.
CompletionGetsPayload ==
    [][IF ev'.op \in AnalyzeResolvedOps
       THEN /\ ev'.complete = ev'.response
            /\ Len(ev'.complete) = 1
            /\ ev'.complete[1].filename = Req(ev'.id).filename
            /\ analysisResult' = ev'.response
       ELSE /\ ev'.complete = <<>>
            /\ analysisResult' = analysisResult]_vars

\* C10 as stated: on every successful analyze call the view stores the
\* response payload as its result, and the completion callback gets it.
SuccessStoresPayload ==
    /\ CompletionGetsPayload
    /\ [][ev'.op \in AnalyzeResolvedOps
          => ViewOfNext(Req(ev'.id)).result = ev'.response]_vars

\* C10 amended: the same, where the view stores the payload only if it is
\* still mounted when the response arrives; the response of a call whose view
\* was unmounted in the meantime changes no component's state, and still
\* reaches the completion callback and App's analysisResult.
MountedViewStoresPayload ==
    /\ CompletionGetsPayload
    /\ [][ev'.op \in AnalyzeResolvedOps
          => LET r == Req(ev'.id)
             IN  IF r.live
                 THEN /\ ViewOfNext(r).result = ev'.response
                      /\ ~ViewOfNext(r).analyzing
                 ELSE /\ poseAnalysis' = poseAnalysis
                      /\ videoAnalysis' = videoAnalysis]_vars

\* C10 witness: a mounted view stored the payload of its call and App holds
\* the same payload.
PayloadStored ==
    /\ ev.op = "analyzeVideoResolved"
    /\ ev.complete # <<>>
    /\ videoAnalysis.result = ev.response
    /\ analysisResult = videoAnalysis.result

\* Outstanding requests issued by the mounted instance of a component
LiveCalls(via) == {r \in pending : r.via = via /\ r.live}

\* An analysis view has at most one call outstanding: its button is disabled
\* while analyzing, and analyzing holds while its call is outstanding.
AnalysisViewSingleCall ==
    \A via \in {"PoseAnalysis", "VideoAnalysis"} :
        /\ Cardinality(LiveCalls(via)) <= 1
        /\ LiveCalls(via) # {}
               => (IF via = "PoseAnalysis" THEN poseAnalysis
                   ELSE videoAnalysis).analyzing

\* C11: in each workflow instance (the upload widget, the image-analysis view,
\* the video-analysis view) at most one call issued by that instance is
\* outstanding at any time.
InstanceSingleCall ==
    /\ AnalysisViewSingleCall
    /\ Cardinality(LiveCalls("FileUpload")) <= 1

AnswerOps ==
    UploadResolvedOps \cup AnalyzeResolvedOps \cup AnalyzeRejectedOps
        \cup {"uploadRejected", "apiUploadRejected", "apiCallResolved"}

\* C12: requests are never cancelled: a request leaves the wire only by the
\* task that handles its own answer; and the response of every request,
\* also of one that is late (a newer request to the same top-level state was
\* answered before it), is written to the top-level state: uploadedFile takes
\* the filename of its upload response, analysisResult its analyze payload.
LateResponseOverwrites ==
    /\ [][\A r \in pending :
              (\A q \in pending' : q.id # r.id)
                  => (ev'.id = r.id /\ ev'.op \in AnswerOps)]_vars
    /\ [][ev'.op \in {"uploadResolved"} \cup AnalyzeResolvedOps
          => LET r == Req(ev'.id)
             IN  /\ ev'.stale # <<>> <=> r.late
                 /\ r.via = "FileUpload"
                        => (/\ uploadedFile' = ev'.response[1].filename
                            /\ r.late => ev'.stale = <<uploadedFile>>)
                 /\ r.via # "FileUpload"
                        => (/\ analysisResult' = ev'.response
                            /\ r.late => ev'.stale = <<analysisResult>>)]_vars

\* C12 witness: the response of an older upload was handled after that of a
\* newer one and replaced the newer filename in uploadedFile.
StaleUploadOverwrote ==
    /\ ev.op = "uploadResolved"
    /\ ev.stale # <<>>
    /\ ev.stale[1] # Null
    /\ uploadedFile = ev.response[1].filename
    /\ uploadedFile # ev.stale[1]

\* The same race on analysisResult: the payload of an older analyze call
\* replaced that of a newer one.
StaleAnalysisOverwrote ==
    /\ ev.op \in AnalyzeResolvedOps
    /\ ev.stale # <<>>
    /\ ev.stale[1] # None
    /\ analysisResult = ev.response
    /\ analysisResult # ev.stale[1]

\* A token is present in storage: getItem returned a non-empty string
TokenPresent == authToken \notin {Null, ""}

\* The header the specification prescribes for a call
BearerHeader == IF TokenPresent THEN "Bearer " \o authToken ELSE Null

\* Every call made through the API client carries the bearer header exactly
\* when a token is present.
ApiCallsCarryToken ==
    \A r \in pending : r.via = "api" => r.authorization = BearerHeader

\* C13: whenever a token is present in storage every outbound call, those of
\* the upload widget and of the analysis views as well as those of the API
\* client, carries the Authorization bearer header with that token; with no
\* token no call carries the header.
EveryCallCarriesToken ==
    \A r \in pending : r.authorization = BearerHeader

\* The tasks a user action starts: a drop, a click on Start Analysis, a click
\* on Start Video Analysis
UserOps == {"onDrop", "analyzeFile", "analyzeVideo"}

Ids(reqs) == {r.id : r \in reqs}

\* C14: no request is retried automatically: one user action (a drop, a
\* click on an analysis button) sends at most one request, a tab change sends
\* none, and the task that handles an answer, a failure included, sends none:
\* it leaves outstanding exactly the other requests that were outstanding.
NoAutomaticRetry ==
    /\ [][ev'.op \in UserOps
          => (/\ Ids(pending) \subseteq Ids(pending')
              /\ Cardinality(pending') <= Cardinality(pending) + 1
              /\ Cardinality(pending') = Cardinality(pending) + 1
                     <=> ev'.id # 0)]_vars
    /\ [][ev'.op = "handleTabChange" => Ids(pending') = Ids(pending)]_vars
    /\ [][ev'.op \in AnswerOps
          => (/\ Ids(pending') = Ids(pending) \ {ev'.id}
              /\ Cardinality(pending') = Cardinality(pending) - 1
              /\ \A q \in pending' : \E r \in pending :
                     /\ r.id = q.id
                     /\ r.endpoint = q.endpoint
                     /\ r.file = q.file
                     /\ r.filename = q.filename)]_vars

\* C14 witness: an analyze call failed, the view shows the error, and no
\* request is outstanding.
FailedWithoutRetry ==
    /\ ev.op \in AnalyzeRejectedOps
    /\ ev.error # None
    /\ pending = {}
    /\ (poseAnalysis.error # Null \/ videoAnalysis.error # Null)

\* C15 as stated: once an analyze call resolves or rejects, the view that
\* started it is out of Analyzing, with its result set after a success and
\* its error set after a failure.
EveryCycleTerminates ==
    /\ [][ev'.op \in AnalyzeResolvedOps
          => LET v == ViewOfNext(Req(ev'.id))
             IN  ~v.analyzing /\ v.result # None]_vars
    /\ [][ev'.op \in AnalyzeRejectedOps
          => LET v == ViewOfNext(Req(ev'.id))
             IN  ~v.analyzing /\ v.error # Null]_vars

\* C15 amended: the same for a call whose view is still mounted when the
\* answer arrives: the view leaves Analyzing with the result set and no error
\* (success) or with the error set (failure).  The answer to a call whose view
\* was unmounted in the meantime changes no view: a view mounted since then
\* keeps its own state, Analyzing included.  From a terminal state of the
\* mounted view the action can be run again (given a filename) and restarts
\* the cycle: the view is Analyzing and one request is sent.
MountedCycleTerminates ==
    /\ [][ev'.op \in AnalyzeResolvedOps \cup AnalyzeRejectedOps
          => LET r == Req(ev'.id)
                 v == ViewOfNext(r)
             IN  IF ~r.live
                 THEN poseAnalysis' = poseAnalysis
                          /\ videoAnalysis' = videoAnalysis
                 ELSE /\ ~v.analyzing
                      /\ ev'.op \in AnalyzeResolvedOps
                             => (v.result = ev'.response /\ v.error = Null)
                      /\ ev'.op \in AnalyzeRejectedOps => v.error # Null]_vars
    /\ []((activeTab = 1 /\ ~poseAnalysis.analyzing /\ CanSend)
              => ENABLED AnalyzeFile)
    /\ []((activeTab = 2 /\ ~videoAnalysis.analyzing /\ CanSend)
              => ENABLED AnalyzeVideo)
    /\ [][(ev'.op \in AnalyzeOps /\ uploadedFile # Null)
          => (/\ ev'.id # 0
              /\ \E q \in pending' \ pending :
                     /\ q.id = ev'.id
                     /\ q.filename = uploadedFile
                     /\ q.live
              /\ (IF ev'.op = "analyzeFile" THEN poseAnalysis'
                  ELSE videoAnalysis').analyzing)]_vars

\* C15 witness: the video view is in its failure state after a rejected call
\* and its action can be run again.
FailedCycleCanRestart ==
    /\ ev.op = "analyzeVideoRejected"
    /\ activeTab = 2
    /\ ~videoAnalysis.analyzing
    /\ videoAnalysis.error # Null
    /\ uploadedFile # Null
    /\ ENABLED AnalyzeVideo

\* A failed upload calls no completion hook and leaves App's state alone.
UploadFailureStaysLocal ==
    [][ev'.op = "uploadRejected"
       => (/\ ev'.hook = <<>>
           /\ uploadedFile' = uploadedFile
           /\ activeTab' = activeTab
           /\ analysisResult' = analysisResult)]_vars

\* A drop of an accepted file puts the mounted widget in Uploading with no
\* error and no result, whatever state it was in, and sends one request.
DropEntersUploading ==
    [][(ev'.op = "onDrop" /\ ev'.id # 0)
       => (/\ fileUpload'.uploading
           /\ fileUpload'.error = Null
           /\ fileUpload'.uploadResult = None
           /\ \E q \in pending' \ pending : q.id = ev'.id /\ q.live)]_vars

\* C16 as stated: when an upload request fails the widget is in UploadFailed
\* with error equal to the detail of the server (the generic message without
\* one), no completion hook is called and uploadedFile is unchanged; a drop
\* re-enters Uploading.
UploadFailureShown ==
    /\ UploadFailureStaysLocal
    /\ DropEntersUploading
    /\ [][ev'.op = "uploadRejected"
          => (/\ ~fileUpload'.uploading
              /\ fileUpload'.error = Displayed(ev'.error[1], "Upload failed"))]_vars

\* C16 amended: the same for an upload whose widget is still mounted when the
\* failure arrives (its progress is reset to 0 as well); the failure of an
\* upload whose widget was unmounted in the meantime changes no widget state.
\* A mounted widget is never in UploadSucceeded (App leaves the upload tab in
\* the task that stores the result), so a drop re-enters Uploading from Idle
\* or from UploadFailed, and an accepted drop on the mounted widget is always
\* possible.
MountedUploadFailureShown ==
    /\ UploadFailureStaysLocal
    /\ DropEntersUploading
    /\ [][ev'.op = "uploadRejected"
          => IF Req(ev'.id).live
             THEN /\ ~fileUpload'.uploading
                  /\ fileUpload'.uploadProgress = 0
                  /\ fileUpload'.uploadResult = fileUpload.uploadResult
                  /\ fileUpload'.error =
                         Displayed(ev'.error[1], "Upload failed")
             ELSE fileUpload' = fileUpload]_vars
    /\ [](fileUpload.uploadResult = None)
    /\ []((activeTab = 0 /\ CanSend)
              => ENABLED OnDrop(File("image", ".png", MaxSize), 0))

\* C16 witness: the mounted widget shows the detail of a failed upload, no
\* filename was reported to App, and another file can be dropped.
UploadFailureDetailShown ==
    /\ ev.op = "uploadRejected"
    /\ activeTab = 0
    /\ ~fileUpload.uploading
    /\ fileUpload.error = "file not found"
    /\ uploadedFile = Null
    /\ ENABLED OnDrop(File("video", ".mp4", MaxSize), MaxTotal)

\* The tier the specification assigns to a score (in thousandths)
Tier(score) ==
    CASE score > 800 -> "success"
      [] score > 600 /\ score <= 800 -> "warning"
      [] score <= 600 -> "error"

\* C17: the quality-tier colour is a function of the score alone: above 0.8
\* success, above 0.6 up to 0.8 warning, up to 0.6 error, so exactly 0.8 is
\* warning and exactly 0.6 is error; in the quality bar of PoseAnalysis and in
\* the bar and chip of a recent session of PlayerProgress.
QualityTierByScore ==
    /\ (screen.view = "PoseAnalysis" /\ screen.results)
           => LET score == poseAnalysis.result[1].analysis[1].quality_score
              IN  /\ score # None => screen.qualityColor = Tier(score[1])
                  /\ score = Some(800) => screen.qualityColor = "warning"
                  /\ score = Some(600) => screen.qualityColor = "error"
    /\ screen.view = "PlayerProgress"
           => /\ screen.barColor = Tier(screen.quality)
              /\ screen.chipColor = Tier(screen.quality)
              /\ screen.quality = 800 => screen.barColor = "warning"
              /\ screen.quality = 600 => screen.barColor = "error"

\* C17 witness: a response with a quality score of exactly 0.8 is shown in
\* the warning tier.
BoundaryScoreIsWarning ==
    /\ screen.view = "PoseAnalysis"
    /\ screen.results
    /\ poseAnalysis.result[1].analysis[1].quality_score = Some(800)
    /\ screen.qualityColor = "warning"
    /\ screen.score = Number(80)

\* The motion quality string of the response the video view holds
MotionQualityOf(state) ==
    state.result[1].analysis[1].motion_analysis[1].motion_quality[1]

\* C18: the colour of the motion quality chip is chosen by a three-way
\* match that ignores case: "smooth" in any casing gives success, "moderate"
\* in any casing gives warning, every other string gives error; the chip is
\* labelled with the string as received.
MotionColourIgnoresCase ==
    (screen.view = "VideoAnalysis" /\ screen.results /\ screen.motion)
        => LET q == MotionQualityOf(videoAnalysis)
           IN  /\ screen.motionLabel = q
               /\ q \in Casings(Smooth) => screen.motionColor = "success"
               /\ q \in Casings(Moderate) => screen.motionColor = "warning"
               /\ q \notin Casings(Smooth) \cup Casings(Moderate)
                      => screen.motionColor = "error"

\* C18 witness: a motion quality of "sMOOTh" is shown in the success colour.
MixedCaseSmoothIsSuccess ==
    /\ screen.view = "VideoAnalysis"
    /\ screen.results
    /\ screen.motionLabel = <<"s", "M", "O", "O", "T", "h">>
    /\ screen.motionColor = "success"

NA == Text("N/A")

\* The analysis object of the response a view holds
DataOf(state) == state.result[1].analysis[1]

\* The cells built with toFixed show N/A for a missing number: the average
\* velocity of the video view, the balance ratio and torso angle of the image
\* view.
FixedCellsShowNA ==
    /\ (screen.view = "PoseAnalysis" /\ screen.results)
           => LET m == Get(DataOf(poseAnalysis).analysis, "pose_metrics")
              IN  m # None
                      => /\ m[1].balance_ratio = None
                             <=> screen.balance_ratio = NA
                         /\ m[1].torso_angle = None
                             <=> screen.torso_angle = NA
    /\ (screen.view = "VideoAnalysis" /\ screen.results /\ screen.motion)
           => (DataOf(videoAnalysis).motion_analysis[1].average_velocity = None
                   <=> screen.average_velocity = NA)

\* C19: for every response in which an optional numeric field is missing the
\* cell of that field shows the placeholder N/A: quality score and confidence
\* of the image view, smoothness, rhythm and average velocity of the video
\* view, balance ratio of the pose metrics.
MissingNumberShowsNA ==
    /\ FixedCellsShowNA
    /\ (screen.view = "PoseAnalysis" /\ screen.results)
           => LET data == DataOf(poseAnalysis)
              IN  /\ data.quality_score = None => screen.score = NA
                  /\ Get(data.top_down_prediction, "confidence") = None
                         => screen.confidence = NA
    /\ (screen.view = "VideoAnalysis" /\ screen.results /\ screen.motion)
           => LET m == DataOf(videoAnalysis).motion_analysis[1]
              IN  /\ m.smoothness_score = None => screen.smoothness = NA
                  /\ m.rhythm_consistency = None => screen.rhythm = NA

\* The cells that do not show N/A for a missing number: the image view shows
\* 0 for a missing quality score and a missing confidence, the video view
\* shows NaN for a missing smoothness score and a missing rhythm consistency.
MissingNumberShowsZeroOrNaN ==
    /\ (screen.view = "PoseAnalysis" /\ screen.results)
           => LET data == DataOf(poseAnalysis)
              IN  /\ data.quality_score = None
                         => (screen.score = Number(0) /\ screen.qualityBar = 0)
                  /\ Get(data.top_down_prediction, "confidence") = None
                         => screen.confidence = Number(0)
    /\ (screen.view = "VideoAnalysis" /\ screen.results /\ screen.motion)
           => LET m == DataOf(videoAnalysis).motion_analysis[1]
              IN  /\ m.smoothness_score = None
                         => screen.smoothness = Cell("NaN", "", 0)
                  /\ m.rhythm_consistency = None
                         => screen.rhythm = Cell("NaN", "", 0)

\* C20: rendering is defensive for every field: whatever subset of the
\* fields below analysis is absent, the render of the image or video view
\* completes without throwing, and an absent field is shown as a placeholder
\* (here: the chip of an overall_prediction without top_down_class is not
\* left blank).
RenderingIsDefensive ==
    /\ ~screen.crashed
    /\ (screen.view = "VideoAnalysis" /\ screen.results
            /\ screen.pattern.kind = "text")
           => screen.pattern.text # ""

\* What the views do: the image view never throws; the video view throws
\* exactly for a response that has motion_analysis without motion_quality.
RenderThrowsWithoutMotionQuality ==
    /\ screen.view = "PoseAnalysis" => ~screen.crashed
    /\ screen.view = "VideoAnalysis"
           => (screen.crashed
                   <=> /\ videoAnalysis.result # None
                       /\ videoAnalysis.result[1].analysis # None
                       /\ LET m == DataOf(videoAnalysis).motion_analysis
                          IN  m # None /\ m[1].motion_quality = None)

\* C21: uploadedFile is set only by a successful upload, to the filename of
\* that upload's response, and every other task leaves it unchanged: failed
\* uploads, rejected drops, progress events, tab changes, analysis runs and
\* their answers.
UploadedFileSetByUploadOnly ==
    [][IF ev'.op = "uploadResolved"
       THEN /\ uploadedFile' = ev'.response[1].filename
            /\ uploadedFile' \in ServerNames(Req(ev'.id).endpoint)
       ELSE uploadedFile' = uploadedFile]_vars

\* C21 witness: after a successful upload a second upload failed, and
\* uploadedFile still holds the filename of the first.
UploadedFileSurvivesFailure ==
    /\ ev.op = "uploadRejected"
    /\ uploadedFile # Null
    /\ fileUpload.error # Null

\* C22: analysisResult is written once by each successful analyze call, with
\* the payload of its response, and by nothing else: drops, uploads and their
\* answers, failed analyses, runs of the analysis action and tab changes (to
\* the progress view as to any other) leave it unchanged.
AnalysisResultWriteOnce ==
    [][IF ev'.op \in AnalyzeResolvedOps
       THEN /\ Len(ev'.complete) = 1
            /\ analysisResult' = Some(ev'.complete[1])
            /\ ev'.complete[1].filename = Req(ev'.id).filename
       ELSE /\ ev'.complete = <<>>
            /\ analysisResult' = analysisResult]_vars

\* C22 witness: the progress view is shown after an analysis and a later
\* upload, and analysisResult still holds the payload of the analysis.
AnalysisResultSurvivesUpload ==
    /\ ev.op = "handleTabChange"
    /\ activeTab = 3
    /\ analysisResult # None
    /\ analysisResult[1].filename # uploadedFile

\* C23: every operation of the API client that fails does so with a
\* normalized error: its message is the message of the remote error payload
\* when the server sent one, a generic message otherwise.
ApiErrorsNormalized ==
    ev.op = "apiUploadRejected"
        => LET err == ev.error[1]
               thrown == ev.thrown[1]
           IN  IF err.response /\ err.detail \notin {Null, ""}
               THEN thrown.message = err.detail
               ELSE thrown.message # ""

\* What the client does: an operation rejects with the error of axios
\* unchanged, whose message is the one axios gave it.
ApiErrorsPassedThrough ==
    ev.op = "apiUploadRejected"
        => LET err == ev.error[1]
               thrown == ev.thrown[1]
           IN  /\ thrown.message = AxiosMessage(err)
               /\ thrown.response = err.response
               /\ thrown.detail = err.detail

\* C24: each upload operation of the API client reports progress to the
\* callback of its caller: for every transport progress event with a known
\* total and 0 <= loaded <= total the callback receives the integer
\* round(loaded * 100 / total), which lies in 0..100.
ApiUploadsReportProgress ==
    [][ev'.op \in {"apiOnUploadProgress", "apiImageProgress"}
       => LET r == Req(ev'.id)
              loaded == (CHOOSE q \in pending' : q.id = r.id).loaded
          IN  (r.onProgress /\ r.total # 0 /\ loaded \in 0..r.total)
                  => /\ ev'.progress = <<Round(loaded * 100, r.total)>>
                     /\ ev'.progress[1] \in 0..100]_vars

\* C24 amended: uploadVideo reports progress to its optional callback: for
\* every transport progress event with a known total the callback, when one
\* was passed, receives the integer round(loaded * 100 / total) in 0..100,
\* and nothing is reported without a callback or with the total unknown;
\* uploadImage takes no callback and reports nothing.
ApiUploadVideoReportsProgress ==
    /\ [][ev'.op = "apiOnUploadProgress"
          => LET r == Req(ev'.id)
                 loaded == (CHOOSE q \in pending' : q.id = r.id).loaded
             IN  IF r.onProgress /\ r.total # 0
                 THEN /\ loaded \in 0..r.total
                      /\ ev'.progress = <<Round(loaded * 100, r.total)>>
                      /\ ev'.progress[1] \in 0..100
                 ELSE ev'.progress = <<>>]_vars
    /\ [][ev'.op = "apiImageProgress" => ev'.progress = <<>>]_vars

\* C24 witness: the callback of an uploadVideo call received a value strictly
\* between 0 and 100 for an event part of the way through a known total.
ApiCallbackGotPartialProgress ==
    /\ ev.op = "apiOnUploadProgress"
    /\ Len(ev.progress) = 1
    /\ ev.progress[1] \in 1..99
    /\ Req(ev.id).loaded < Req(ev.id).total

\* The list fields of the feedback of each analysis view
ListFields(view) ==
    IF view = "PoseAnalysis"
    THEN {"strengths", "improvements", "technique_tips"}
    ELSE {"key_observations", "improvement_areas", "drills_recommended"}

\* The feedback object of the response the view that is on screen holds
FeedbackOf(view) ==
    IF view = "PoseAnalysis"
    THEN Get(DataOf(poseAnalysis).analysis, "feedback")
    ELSE DataOf(videoAnalysis).feedback

\* The view on screen holds a response with an analysis object
HoldsAnalysis(view) ==
    LET state == IF view = "PoseAnalysis" THEN poseAnalysis ELSE videoAnalysis
    IN  state.result # None /\ state.result[1].analysis # None

\* The section of a list field is on screen
Shown(field) == screen.results /\ screen[field] # <<>>

\* C25: each list-type feedback field (strengths, improvements, technique
\* tips, key observations, improvement areas, recommended drills) is rendered
\* if and only if it is present and non-empty.
ListSectionShownIffNonEmpty ==
    (screen.view \in {"PoseAnalysis", "VideoAnalysis"}
         /\ HoldsAnalysis(screen.view))
        => \A field \in ListFields(screen.view) :
               LET list == Get(FeedbackOf(screen.view), field)
               IN  Shown(field) <=> (list # None /\ list[1] # <<>>)

\* What the views do: a section on screen is that of a present, non-empty
\* list and shows its items, and a present, non-empty list is on screen
\* unless the render of the video view threw.
ListSectionShownUnlessThrown ==
    (screen.view \in {"PoseAnalysis", "VideoAnalysis"}
         /\ HoldsAnalysis(screen.view))
        => \A field \in ListFields(screen.view) :
               LET list == Get(FeedbackOf(screen.view), field)
               IN  /\ Shown(field)
                       => list # None /\ list[1] # <<>>
                              /\ screen[field] = list[1]
                   /\ (list # None /\ list[1] # <<>> /\ ~screen.crashed)
                       => Shown(field)

\* C27: every element coloured by a 0..1 quality score, in any view, uses the
\* same three-tier mapping (above 0.8 success, above 0.6 warning, otherwise
\* error): the image quality bar, the smoothness and rhythm bars of the video
\* view, the average quality bar and performance level chip of the progress
\* view, and the rows of its recent sessions.
EveryScoreColourThreeTier ==
    /\ (screen.view = "PoseAnalysis" /\ screen.results)
           => screen.qualityColor = Tier(screen.qualityBar)
    /\ (screen.view = "VideoAnalysis" /\ screen.results /\ screen.motion)
           => LET m == DataOf(videoAnalysis).motion_analysis[1]
              IN  /\ m.smoothness_score # None
                         => screen.smoothnessColor
                                = Tier(m.smoothness_score[1])
                  /\ m.rhythm_consistency # None
                         => screen.rhythmColor
                                = Tier(m.rhythm_consistency[1])
    /\ screen.view = "PlayerProgress"
           => /\ screen.barColor = Tier(screen.quality)
              /\ screen.chipColor = Tier(screen.quality)

\* What the views do: the image quality bar and the recent session rows use
\* the three tiers; the smoothness and rhythm bars have two, success above
\* 0.7 and warning otherwise; the average bar and the performance level chip
\* have two, success above 0.8 and warning otherwise.
ScoreColoursByView ==
    /\ (screen.view = "PoseAnalysis" /\ screen.results)
           => screen.qualityColor = Tier(screen.qualityBar)
    /\ (screen.view = "VideoAnalysis" /\ screen.results /\ screen.motion)
           => LET m == DataOf(videoAnalysis).motion_analysis[1]
                  Two(score) == IF score > 700 THEN "success" ELSE "warning"
              IN  /\ m.smoothness_score # None
                         => screen.smoothnessColor
                                = Two(m.smoothness_score[1])
                  /\ m.rhythm_consistency # None
                         => screen.rhythmColor
                                = Two(m.rhythm_consistency[1])
    /\ ev.op = "renderSession"
           => /\ screen.barColor = Tier(screen.quality)
              /\ screen.chipColor = Tier(screen.quality)
    /\ ev.op = "renderProgress"
           => /\ screen.barColor \in {"success", "warning"}
              /\ screen.barColor = "success" <=> screen.quality > 800
              /\ screen.chipColor = screen.barColor

\* C26: when a file is accepted the upload widget enters Uploading with its
\* previous outcome reset, and from that moment until the request for that
\* file completes the error and the uploadResult of the widget are both null.
OutcomeResetWhileUploading ==
    /\ [][(ev'.op = "onDrop" /\ ev'.id # 0)
          => /\ fileUpload'.uploading
             /\ fileUpload'.error = Null
             /\ fileUpload'.uploadResult = None]_vars
    /\ [](\A r \in LiveUploads :
              fileUpload.error = Null /\ fileUpload.uploadResult = None)

\* What the widget does: an accepted drop enters Uploading with the outcome
\* reset, and while the widget is in Uploading its error and uploadResult are
\* null.  With two uploads outstanding (C1) the answer of one takes the
\* widget out of Uploading while the other is still on the wire.
OutcomeResetWhileInUploading ==
    /\ [][(ev'.op = "onDrop" /\ ev'.id # 0)
          => /\ fileUpload'.uploading
             /\ fileUpload'.error = Null
             /\ fileUpload'.uploadResult = None]_vars
    /\ [](fileUpload.uploading
              => fileUpload.error = Null /\ fileUpload.uploadResult = None)

\* C28: in the upload widget the uploading flag is true exactly while an
\* upload request issued by the widget is outstanding, and whenever uploading
\* is false the displayed uploadProgress is 0.
UploadingIffOutstanding ==
    /\ fileUpload.uploading <=> LiveUploads # {}
    /\ ~fileUpload.uploading => fileUpload.uploadProgress = 0

\* What the widget does: while uploading is set a request of the widget is
\* outstanding, and with none outstanding uploading is false and the progress
\* is 0.  With two uploads outstanding (C1) the answer of one clears the flag
\* while the other is on the wire, whose progress events are then displayed.
UploadingImpliesOutstanding ==
    /\ fileUpload.uploading => LiveUploads # {}
    /\ LiveUploads = {}
           => ~fileUpload.uploading /\ fileUpload.uploadProgress = 0

\* C29: whenever the top-level analysisResult is non-null it is the response
\* of an analyze call made for the file that the top-level uploadedFile
\* currently holds: its filename equals uploadedFile.
AnalysisResultOfUploadedFile ==
    analysisResult # None => analysisResult[1].filename = uploadedFile

\* What App does: an analyze call is made for the file uploadedFile holds
\* when the call is sent, and analysisResult holds the response of such a
\* call for a filename some upload returned; a later upload replaces
\* uploadedFile and leaves analysisResult as it is.
AnalysisResultOfSomeUpload ==
    /\ [][(ev'.op \in AnalyzeOps /\ ev'.id # 0)
          => (CHOOSE q \in pending' : q.id = ev'.id).filename
                 = uploadedFile]_vars
    /\ [](analysisResult # None => analysisResult[1].filename \in Names)
    /\ [][ev'.op = "uploadResolved" => analysisResult' = analysisResult]_vars

\* Outstanding analyze requests of a kind, whichever instance of the view
\* sent them
AnalyzeCalls(via) == {r \in pending : r.via = via}

\* C30: across the whole application, tab switches included (which unmount
\* the view of the inactive tab and recreate it with analyzing = false, no
\* result and no error), at most one analyze request of a given kind is
\* outstanding at any time.
OneAnalyzePerKind ==
    \A via \in {"PoseAnalysis", "VideoAnalysis"} :
        Cardinality(AnalyzeCalls(via)) <= 1

\* What the application does: the instance of a view that is mounted has at
\* most one analyze request outstanding; the requests of instances that were
\* unmounted stay on the wire beside it.
OneAnalyzePerMountedView ==
    \A via \in {"PoseAnalysis", "VideoAnalysis"} :
        /\ Cardinality(LiveCalls(via)) <= 1
        /\ TabOf(via) # activeTab => LiveCalls(via) = {}

====
